---- MODULE Spec2Model ----
(***************************************************************************)
(* A model of package geneve (mdlayher/geneve): the binary codec of Geneve *)
(* headers and options.  Bytes are the integers 0..255, byte slices are    *)
(* sequences (Go index k is TLA+ index k+1), and the four codec methods    *)
(* are operators computed as the Go code computes them.  The actions call  *)
(* them on a Header h and an Option o that persist between calls, the way  *)
(* a caller holds a *Header and an *Option.                                *)
(***************************************************************************)
EXTENDS Integers, Sequences, FiniteSets, TLC

VARIABLES
    h,      \* the caller's *Header: receiver of the Header methods
    o,      \* the caller's *Option: receiver of the Option methods
    ret     \* the most recent call: its name, receiver before the call,
            \* argument, and returned values

vars == <<h, o, ret>>

----------------------------------------------------------------------------
(* Bounds of the model. *)

\* Largest number of options in a Header handed to Header.MarshalBinary.
MaxOptions == 3
\* Largest number of payload bytes appended to an encoded header or option.
MaxPayload == 5
\* Largest number of 4-byte words after the 8-byte prefix of a raw buffer.
MaxWords == 3
\* A non-fresh receiver is decoded into only while it holds at most this
\* many options (each decode may append more).
MaxRecvOptions == 1

----------------------------------------------------------------------------
(* Program constants. *)

headerLen == 8
maxOptionType == 127
maxOptionLength == 31
optionHeaderLen == 4
MaxVNI == 16777215
Version == 0
ProtocolTypeEthernet == 25944

\* The error values of the package; nil is the absence of an error.
nil == "nil"
errInvalidVersion == "errInvalidVersion"
errInvalidVNI == "errInvalidVNI"
errInvalidOptionDataLength == "errInvalidOptionDataLength"
errInvalidOptionType == "errInvalidOptionType"
errInvalidOptionLength == "errInvalidOptionLength"
ErrUnexpectedEOF == "io.ErrUnexpectedEOF"

----------------------------------------------------------------------------
(* Go's integer operators on unsigned values. *)

RECURSIVE BitOr(_, _)
BitOr(a, b) ==
    IF a = 0 THEN b
    ELSE IF b = 0 THEN a
    ELSE (IF a % 2 = 1 \/ b % 2 = 1 THEN 1 ELSE 0) + 2 * BitOr(a \div 2, b \div 2)

RECURSIVE BitAnd(_, _)
BitAnd(a, b) ==
    IF a = 0 \/ b = 0 THEN 0
    ELSE (IF a % 2 = 1 /\ b % 2 = 1 THEN 1 ELSE 0) + 2 * BitAnd(a \div 2, b \div 2)

\* x >> n
Shr(x, n) == x \div (2 ^ n)

\* x << n on a uint8
Shl8(x, n) == (x * (2 ^ n)) % 256

\* byte(x): conversion of an int to uint8
ToByte(x) == x % 256

\* b[i:] for a Go index i
SliceFrom(b, i) == SubSeq(b, i + 1, Len(b))

\* b[i:j] for Go indices i, j
Slice(b, i, j) == SubSeq(b, i + 1, j)

\* binary.BigEndian.PutUint16
PutUint16(v) == <<(v \div 256) % 256, v % 256>>

\* binary.BigEndian.Uint16
Uint16(b) == b[1] * 256 + b[2]

\* binary.BigEndian.PutUint32(b[4:8], uint32(v)<<8): the low 24 bits of v
\* followed by a zero byte (v<<8 itself does not fit the checker's integers).
PutUint32Shl8(v) == <<(v \div 65536) % 256, (v \div 256) % 256, v % 256, 0>>

\* binary.BigEndian.Uint32(b) >> 8: the first three of the four bytes
Uint32Shr8(b) == b[1] * 65536 + b[2] * 256 + b[3]

----------------------------------------------------------------------------
(* The Option codec (option.go). *)

\* new(Option)
ZeroOption == [OptionClass |-> 0, FlagCritical |-> FALSE, Type |-> 0, Data |-> <<>>]

\* What a marshal call returns: a byte slice (nil when isnil) and an error.
NilBytes(e) == [b |-> <<>>, isnil |-> TRUE, err |-> e]
Bytes(bs) == [b |-> bs, isnil |-> FALSE, err |-> nil]

\* Option.MarshalBinary that checks the type before the data length.
Option_MarshalBinary_TypeFirst(op) ==
    IF op.Type > maxOptionType THEN NilBytes(errInvalidOptionType)
    ELSE IF Len(op.Data) % 4 # 0 THEN NilBytes(errInvalidOptionDataLength)
    ELSE LET ld == Len(op.Data) \div 4 IN
         IF ld > maxOptionLength THEN NilBytes(errInvalidOptionLength)
         ELSE Bytes(PutUint16(op.OptionClass)
                    \o <<BitOr(IF op.FlagCritical THEN Shl8(1, 7) ELSE 0, op.Type)>>
                    \o <<ToByte(ld)>>
                    \o op.Data)

\* func (o *Option) MarshalBinary() ([]byte, error)
Option_MarshalBinary(op) ==
    IF Len(op.Data) % 4 # 0 THEN NilBytes(errInvalidOptionDataLength)
    ELSE LET ld == Len(op.Data) \div 4 IN
         IF op.Type > maxOptionType THEN NilBytes(errInvalidOptionType)
         ELSE IF ld > maxOptionLength THEN NilBytes(errInvalidOptionLength)
         ELSE Bytes(PutUint16(op.OptionClass)
                    \o <<BitOr(IF op.FlagCritical THEN Shl8(1, 7) ELSE 0, op.Type)>>
                    \o <<ToByte(ld)>>
                    \o op.Data)

\* Option.UnmarshalBinary that does not mask the critical bit off the type.
Option_UnmarshalBinary_TypeUnmasked(op, b) ==
    IF Len(b) < optionHeaderLen THEN [o |-> op, err |-> ErrUnexpectedEOF]
    ELSE IF Len(b) % 4 # 0 THEN [o |-> op, err |-> errInvalidOptionLength]
    ELSE LET ol == BitAnd(b[4], 31) * 4 IN
         IF Len(b) < optionHeaderLen + ol THEN [o |-> op, err |-> ErrUnexpectedEOF]
         ELSE [o |-> [OptionClass  |-> Uint16(Slice(b, 0, 2)),
                      FlagCritical |-> Shr(b[3], 7) = 1,
                      Type         |-> b[3],
                      Data         |-> Slice(b, optionHeaderLen, optionHeaderLen + ol)],
               err |-> nil]

\* Option.UnmarshalBinary that does not mask the reserved bits off the length.
Option_UnmarshalBinary_LenUnmasked(op, b) ==
    IF Len(b) < optionHeaderLen THEN [o |-> op, err |-> ErrUnexpectedEOF]
    ELSE IF Len(b) % 4 # 0 THEN [o |-> op, err |-> errInvalidOptionLength]
    ELSE LET ol == b[4] * 4 IN
         IF Len(b) < optionHeaderLen + ol THEN [o |-> op, err |-> ErrUnexpectedEOF]
         ELSE [o |-> [OptionClass  |-> Uint16(Slice(b, 0, 2)),
                      FlagCritical |-> Shr(b[3], 7) = 1,
                      Type         |-> BitAnd(b[3], 127),
                      Data         |-> Slice(b, optionHeaderLen, optionHeaderLen + ol)],
               err |-> nil]

\* Option.UnmarshalBinary without the check of the buffer's alignment.
Option_UnmarshalBinary_NoAlign(op, b) ==
    IF Len(b) < optionHeaderLen THEN [o |-> op, err |-> ErrUnexpectedEOF]
    ELSE LET ol == BitAnd(b[4], 31) * 4 IN
         IF Len(b) < optionHeaderLen + ol THEN [o |-> op, err |-> ErrUnexpectedEOF]
         ELSE [o |-> [OptionClass  |-> Uint16(Slice(b, 0, 2)),
                      FlagCritical |-> Shr(b[3], 7) = 1,
                      Type         |-> BitAnd(b[3], 127),
                      Data         |-> Slice(b, optionHeaderLen, optionHeaderLen + ol)],
               err |-> nil]

\* func (o *Option) UnmarshalBinary(b []byte) error
\* The result is the receiver after the call and the error.
Option_UnmarshalBinary(op, b) ==
    IF Len(b) < optionHeaderLen THEN [o |-> op, err |-> ErrUnexpectedEOF]
    ELSE IF Len(b) % 4 # 0 THEN [o |-> op, err |-> errInvalidOptionLength]
    ELSE LET ol == BitAnd(b[4], 31) * 4 IN
         IF Len(b) < optionHeaderLen + ol THEN [o |-> op, err |-> ErrUnexpectedEOF]
         ELSE [o |-> [OptionClass  |-> Uint16(Slice(b, 0, 2)),
                      FlagCritical |-> Shr(b[3], 7) = 1,
                      Type         |-> BitAnd(b[3], 127),
                      Data         |-> Slice(b, optionHeaderLen, optionHeaderLen + ol)],
               err |-> nil]

----------------------------------------------------------------------------
(* The Header codec (header.go). *)

\* new(Header)
ZeroHeader ==
    [Version |-> 0, FlagOAM |-> FALSE, FlagCritical |-> FALSE,
     ProtocolType |-> 0, VNI |-> 0, Options |-> <<>>]

\* func (v VNI) Valid() bool
VNI_Valid(v) == v <= MaxVNI

\* The loop of Header.MarshalBinary over h.Options, from the k-th option on,
\* with obs the bytes appended so far: the first option error ends it.
RECURSIVE MarshalOptions(_, _, _)
MarshalOptions(opts, k, obs) ==
    IF k > Len(opts) THEN Bytes(obs)
    ELSE LET r == Option_MarshalBinary(opts[k]) IN
         IF r.err # nil THEN NilBytes(r.err)
         ELSE MarshalOptions(opts, k + 1, obs \o r.b)

\* Header.MarshalBinary that checks the VNI before the version.
Header_MarshalBinary_VNIFirst(hd) ==
    IF ~VNI_Valid(hd.VNI) THEN NilBytes(errInvalidVNI)
    ELSE IF hd.Version # Version THEN NilBytes(errInvalidVersion)
    ELSE LET r == MarshalOptions(hd.Options, 1, <<>>) IN
         IF r.err # nil THEN NilBytes(r.err)
         ELSE LET obs == r.b
                  b0  == BitOr(BitOr(0, Shl8(hd.Version, 6)), ToByte(Len(obs) \div 4))
                  b1  == BitOr(IF hd.FlagOAM THEN Shl8(1, 7) ELSE 0,
                               IF hd.FlagCritical THEN Shl8(1, 6) ELSE 0)
              IN Bytes(<<b0, b1>> \o PutUint16(hd.ProtocolType)
                       \o PutUint32Shl8(hd.VNI) \o obs)

\* func (h *Header) MarshalBinary() ([]byte, error)
Header_MarshalBinary(hd) ==
    IF hd.Version # Version THEN NilBytes(errInvalidVersion)
    ELSE IF ~VNI_Valid(hd.VNI) THEN NilBytes(errInvalidVNI)
    ELSE LET r == MarshalOptions(hd.Options, 1, <<>>) IN
         IF r.err # nil THEN NilBytes(r.err)
         ELSE LET obs == r.b
                  b0  == BitOr(BitOr(0, Shl8(hd.Version, 6)), ToByte(Len(obs) \div 4))
                  b1  == BitOr(IF hd.FlagOAM THEN Shl8(1, 7) ELSE 0,
                               IF hd.FlagCritical THEN Shl8(1, 6) ELSE 0)
              IN Bytes(<<b0, b1>> \o PutUint16(hd.ProtocolType)
                       \o PutUint32Shl8(hd.VNI) \o obs)

\* The loop of unmarshalBinaryOffset: while i <= ol, decode one option from
\* b[i:] into a new Option, append it and advance i.
RECURSIVE UnmarshalOptions(_, _, _, _)
UnmarshalOptions(hd, b, i, ol) ==
    IF i <= ol
    THEN LET r == Option_UnmarshalBinary(ZeroOption, SliceFrom(b, i)) IN
         IF r.err # nil THEN [h |-> hd, off |-> 0, err |-> r.err]
         ELSE UnmarshalOptions([hd EXCEPT !.Options = Append(@, r.o)], b,
                               i + optionHeaderLen + Len(r.o.Data), ol)
    ELSE [h |-> hd, off |-> i, err |-> nil]

\* func (h *Header) unmarshalBinaryOffset(b []byte) (int, error)
\* The result is the receiver after the call, the offset and the error.
Header_unmarshalBinaryOffset(hd, b) ==
    IF Len(b) < headerLen THEN [h |-> hd, off |-> 0, err |-> ErrUnexpectedEOF]
    ELSE LET h1 == [hd EXCEPT !.Version = Shr(b[1], 6)]
             ol == BitAnd(b[1], 63) * 4
         IN IF Len(b) < headerLen + ol
            THEN [h |-> h1, off |-> 0, err |-> ErrUnexpectedEOF]
            ELSE LET h2 == [h1 EXCEPT
                              !.FlagOAM = (Shr(b[2], 7) = 1),
                              !.FlagCritical = (Shr(BitAnd(b[2], 64), 6) = 1),
                              !.ProtocolType = Uint16(Slice(b, 2, 4)),
                              !.VNI = Uint32Shr8(Slice(b, 4, 8))]
                 IN IF ol = 0 THEN [h |-> h2, off |-> headerLen, err |-> nil]
                    ELSE UnmarshalOptions(h2, b, headerLen, ol)

\* func (h *Header) UnmarshalBinary(b []byte) error: the offset is dropped.
Header_UnmarshalBinary(hd, b) ==
    LET r == Header_unmarshalBinaryOffset(hd, b) IN [h |-> r.h, err |-> r.err]

----------------------------------------------------------------------------
(* The values the caller hands to the codec. *)

\* n bytes counting up from s.
Data(n, s) == [k \in 1..n |-> (s + k - 1) % 256]

\* Data lengths: empty, aligned, the 124-byte maximum, unaligned, too long.
DataLens == {0, 3, 4, 8, 124, 128, 130}

\* Options handed to Option.MarshalBinary.
OptionInputs ==
    { [OptionClass |-> c, FlagCritical |-> f, Type |-> t, Data |-> Data(n, s)] :
        c \in {1, 65535}, f \in BOOLEAN, t \in {2, 127, 128},
        n \in DataLens, s \in {0, 252} }

\* Bytes that follow an encoded header or option in a buffer: the payload.
Payloads == { Data(n, 1) : n \in 0..MaxPayload }

\* Buffers handed to Option.UnmarshalBinary that no encoder produced:
\* a 4-byte option header with every kind of type and length byte, then
\* fewer, as many or more bytes than the length byte announces.
RawOptionBufs ==
    { Data(n, 0) : n \in 0..3 }
    \cup { <<c, 1, t, l>> \o Data(n, 7) :
             c \in {0, 255}, t \in {4, 130, 255}, l \in {0, 1, 2, 31, 33, 225},
             n \in {0, 4, 8, 124} \cup (1..MaxPayload) }

\* Options of the Headers handed to Header.MarshalBinary: two with data, one
\* without, one of the maximum length, one unaligned and one of a bad type.
HeaderOptionInputs ==
    { [OptionClass |-> 1, FlagCritical |-> TRUE,  Type |-> 2,   Data |-> Data(4, 0)],
      [OptionClass |-> 2, FlagCritical |-> FALSE, Type |-> 4,   Data |-> Data(8, 4)],
      [OptionClass |-> 3, FlagCritical |-> FALSE, Type |-> 0,   Data |-> <<>>],
      [OptionClass |-> 4, FlagCritical |-> FALSE, Type |-> 127, Data |-> Data(124, 0)],
      [OptionClass |-> 5, FlagCritical |-> FALSE, Type |-> 1,   Data |-> Data(3, 0)],
      [OptionClass |-> 6, FlagCritical |-> TRUE,  Type |-> 128, Data |-> Data(4, 0)] }

\* Sequences of at most n elements of S.
SeqUpTo(S, n) == UNION { [1..k -> S] : k \in 0..n }

\* Headers handed to Header.MarshalBinary.
HeaderInputs ==
    { [Version |-> v, FlagOAM |-> fl[1], FlagCritical |-> fl[2],
       ProtocolType |-> ProtocolTypeEthernet, VNI |-> n, Options |-> os] :
        v \in {Version, Version + 1},
        fl \in {<<FALSE, TRUE>>, <<TRUE, FALSE>>},
        n \in {12316415, MaxVNI + 1},
        os \in SeqUpTo(HeaderOptionInputs, MaxOptions) }

\* 4-byte words of a raw buffer: an option header announcing one word of
\* data, a word of data (as an option header: three words of data), an
\* empty option with its reserved bits set.
RawWords == { <<0, 1, 130, 1>>, <<0, 1, 2, 3>>, <<0, 2, 4, 224>> }

RECURSIVE Flatten(_)
Flatten(ws) == IF ws = <<>> THEN <<>> ELSE Head(ws) \o Flatten(Tail(ws))

\* Buffers handed to Header.UnmarshalBinary that no encoder produced: too
\* short for a header, or an 8-byte prefix announcing 0 to 3 words of
\* options (with version 0 or 1), then words and possibly an unaligned tail.
RawHeaderBufs ==
    { Data(n, 0) : n \in {0, 7} }
    \cup { <<pre[1], pre[2], 101, 88, 3, 2, 1, 0>> \o Flatten(ws) \o tl :
             pre \in {<<0, 0>>, <<1, 192>>, <<2, 128>>, <<3, 64>>, <<66, 192>>},
             ws \in SeqUpTo(RawWords, MaxWords),
             tl \in {<<>>, <<9>>} }

------------------------------------------------------------

\* Buffers decoded into a Header that already holds values: the raw buffers
\* of at most one word after the prefix.
HeldHeaderBufs == { b \in RawHeaderBufs : Len(b) <= headerLen + 5 }

\* Buffers decoded into an Option that already holds values.
HeldOptionBufs == { b \in RawOptionBufs : Len(b) <= 12 /\ (b = <<>> \/ b[1] = 0) }

----------------------------------------------------------------------------
(* The calls.  A run follows one value the caller holds: the first call     *)
(* either encodes a Header or an Option the caller built, or decodes a      *)
(* buffer into a new one; the calls after it decode into the value held, or *)
(* decode the bytes an encoder returned.  What a first call produces does   *)
(* not depend on the state before it, so taking it from the initial state   *)
(* reaches every state it can produce.                                      *)

HeaderOps == {"Header.MarshalBinary", "Header.UnmarshalBinary",
              "Header.unmarshalBinaryOffset"}
OptionOps == {"Option.MarshalBinary", "Option.UnmarshalBinary"}

\* No call was made yet.
NoCall ==
    [op |-> "none", recv |-> ZeroHeader, arg |-> <<>>, src |-> "none",
     sent |-> ZeroHeader, enc |-> <<>>, out |-> <<>>, isnil |-> TRUE,
     err |-> nil, off |-> 0]

Init ==
    /\ h = ZeroHeader
    /\ o = ZeroOption
    /\ ret = NoCall

FirstCall == ret.op = "none"

\* The caller builds a Header and calls MarshalBinary on it.
CallHeaderMarshalBinary ==
    /\ FirstCall
    /\ \E hv \in HeaderInputs :
        LET r == Header_MarshalBinary(hv) IN
        /\ h' = hv
        /\ ret' = [op |-> "Header.MarshalBinary", recv |-> hv, arg |-> <<>>,
                   src |-> "none", sent |-> hv, enc |-> r.b, out |-> r.b,
                   isnil |-> r.isnil, err |-> r.err, off |-> 0]
        /\ UNCHANGED o

\* The caller has the bytes a Header.MarshalBinary returned.
HeaderOnWire == ret.op \in HeaderOps /\ ret.enc # <<>>

\* The caller's Header can take one more decode (the bound on its options).
HeaderHeld == ret.op \in HeaderOps /\ Len(h.Options) <= MaxRecvOptions

\* h.UnmarshalBinary(b) on receiver recv; b is enc followed by a payload when
\* src is "wire" (enc being the encoding of sent), any buffer when "raw".
HeaderUnmarshalBinary(recv, b, src, sent, enc) ==
    LET r == Header_UnmarshalBinary(recv, b) IN
    /\ h' = r.h
    /\ ret' = [op |-> "Header.UnmarshalBinary", recv |-> recv, arg |-> b,
               src |-> src, sent |-> sent, enc |-> enc, out |-> <<>>,
               isnil |-> TRUE, err |-> r.err, off |-> 0]
    /\ UNCHANGED o

\* new(Header).UnmarshalBinary(b) on a buffer from elsewhere.
CallHeaderUnmarshalBinaryNew ==
    /\ FirstCall
    /\ \E b \in RawHeaderBufs :
           HeaderUnmarshalBinary(ZeroHeader, b, "raw", ZeroHeader, <<>>)

\* h.UnmarshalBinary(b) into the Header the caller holds.
CallHeaderUnmarshalBinaryHeld ==
    /\ HeaderHeld
    /\ \E b \in HeldHeaderBufs :
           HeaderUnmarshalBinary(h, b, "raw", ZeroHeader, <<>>)

\* UnmarshalBinary of the bytes MarshalBinary returned, followed by a
\* payload, into a new(Header) or into the Header the caller holds.
CallHeaderUnmarshalBinaryWire ==
    /\ HeaderOnWire
    /\ \E recv \in {ZeroHeader} \cup (IF HeaderHeld THEN {h} ELSE {}),
          p \in Payloads :
           HeaderUnmarshalBinary(recv, ret.enc \o p, "wire", ret.sent, ret.enc)

\* off, err := new(Header).unmarshalBinaryOffset(b), as the package calls it.
Header_unmarshalBinaryOffsetCall(b, src, sent, enc) ==
    LET r == Header_unmarshalBinaryOffset(ZeroHeader, b) IN
    /\ h' = r.h
    /\ ret' = [op |-> "Header.unmarshalBinaryOffset", recv |-> ZeroHeader,
               arg |-> b, src |-> src, sent |-> sent, enc |-> enc,
               out |-> <<>>, isnil |-> TRUE, err |-> r.err, off |-> r.off]
    /\ UNCHANGED o

CallHeaderUnmarshalBinaryOffsetNew ==
    /\ FirstCall
    /\ \E b \in RawHeaderBufs :
           Header_unmarshalBinaryOffsetCall(b, "raw", ZeroHeader, <<>>)

CallHeaderUnmarshalBinaryOffsetWire ==
    /\ HeaderOnWire
    /\ \E p \in Payloads :
           Header_unmarshalBinaryOffsetCall(ret.enc \o p, "wire", ret.sent, ret.enc)

\* The caller builds an Option and calls MarshalBinary on it.
CallOptionMarshalBinary ==
    /\ FirstCall
    /\ \E ov \in OptionInputs :
        LET r == Option_MarshalBinary(ov) IN
        /\ o' = ov
        /\ ret' = [op |-> "Option.MarshalBinary", recv |-> ov, arg |-> <<>>,
                   src |-> "none", sent |-> ov, enc |-> r.b, out |-> r.b,
                   isnil |-> r.isnil, err |-> r.err, off |-> 0]
        /\ UNCHANGED h

\* The caller has the bytes an Option.MarshalBinary returned.
OptionOnWire == ret.op \in OptionOps /\ ret.enc # <<>>

\* o.UnmarshalBinary(b) on receiver recv.
OptionUnmarshalBinary(recv, b, src, sent, enc) ==
    LET r == Option_UnmarshalBinary(recv, b) IN
    /\ o' = r.o
    /\ ret' = [op |-> "Option.UnmarshalBinary", recv |-> recv, arg |-> b,
               src |-> src, sent |-> sent, enc |-> enc, out |-> <<>>,
               isnil |-> TRUE, err |-> r.err, off |-> 0]
    /\ UNCHANGED h

\* new(Option).UnmarshalBinary(b) on a buffer from elsewhere.
CallOptionUnmarshalBinaryNew ==
    /\ FirstCall
    /\ \E b \in RawOptionBufs :
           OptionUnmarshalBinary(ZeroOption, b, "raw", ZeroOption, <<>>)

\* o.UnmarshalBinary(b) into the Option the caller holds.
CallOptionUnmarshalBinaryHeld ==
    /\ ret.op \in OptionOps
    /\ \E b \in HeldOptionBufs :
           OptionUnmarshalBinary(o, b, "raw", ZeroOption, <<>>)

\* UnmarshalBinary of the bytes MarshalBinary returned, followed by a
\* payload, into a new(Option) or into the Option the caller holds.
CallOptionUnmarshalBinaryWire ==
    /\ OptionOnWire
    /\ \E recv \in {ZeroOption, o}, p \in Payloads :
           OptionUnmarshalBinary(recv, ret.enc \o p, "wire", ret.sent, ret.enc)

Next ==
    \/ CallHeaderMarshalBinary
    \/ CallHeaderUnmarshalBinaryNew
    \/ CallHeaderUnmarshalBinaryHeld
    \/ CallHeaderUnmarshalBinaryWire
    \/ CallHeaderUnmarshalBinaryOffsetNew
    \/ CallHeaderUnmarshalBinaryOffsetWire
    \/ CallOptionMarshalBinary
    \/ CallOptionUnmarshalBinaryNew
    \/ CallOptionUnmarshalBinaryHeld
    \/ CallOptionUnmarshalBinaryWire

Spec == Init /\ [][Next]_vars

----------------------------------------------------------------------------
(* The properties.  Each is stated over the record of the most recent call  *)
(* and the values the caller holds after it.                                *)

HeaderDecodeOps == {"Header.UnmarshalBinary", "Header.unmarshalBinaryOffset"}

\* An option that is individually valid: Type <= 127, data length a multiple
\* of 4 and at most 124 bytes.
ValidOption(op) ==
    /\ op.Type <= 127
    /\ Len(op.Data) % 4 = 0
    /\ Len(op.Data) <= 124

\* The error the encoder is to report for an option: that of the first
\* failing check, nil for a valid option.
ExpectedOptionError(op) ==
    IF Len(op.Data) % 4 # 0 THEN errInvalidOptionDataLength
    ELSE IF op.Type > 127 THEN errInvalidOptionType
    ELSE IF Len(op.Data) \div 4 > 31 THEN errInvalidOptionLength
    ELSE nil

\* A Header with Version 0, a valid VNI and valid options only.
ValidHeader(hd) ==
    /\ hd.Version = 0
    /\ hd.VNI <= MaxVNI
    /\ \A k \in 1..Len(hd.Options) : ValidOption(hd.Options[k])

\* The bytes a sequence of decoded options takes: 4 + len(Data) for each.
RECURSIVE OptionBytes(_)
OptionBytes(opts) ==
    IF opts = <<>> THEN 0
    ELSE optionHeaderLen + Len(Head(opts).Data) + OptionBytes(Tail(opts))

\* The options the most recent decode appended to its receiver.
Decoded == SubSeq(h.Options, Len(ret.recv.Options) + 1, Len(h.Options))

\* C1: Header round-trip.  Decoding the bytes MarshalBinary returned for a
\* valid Header into a new Header succeeds and yields a Header equal to the
\* one encoded, options with empty Data included.
C1_HeaderRoundTrip ==
    ( /\ ret.op = "Header.UnmarshalBinary"
      /\ ret.src = "wire"
      /\ ret.arg = ret.enc
      /\ ret.recv = ZeroHeader
      /\ ValidHeader(ret.sent) )
    => (ret.err = nil /\ h = ret.sent)

\* C2: Payload offset.  For an encoded header H of length L followed by any
\* payload, unmarshalBinaryOffset succeeds, returns L and yields the Header
\* decoded from H alone.
C2_PayloadOffset ==
    ( /\ ret.op = "Header.unmarshalBinaryOffset"
      /\ ret.src = "wire" )
    => /\ ret.err = nil
       /\ ret.off = Len(ret.enc)
       /\ h = Header_unmarshalBinaryOffset(ZeroHeader, ret.enc).h

\* C3: Option round-trip.  Decoding the bytes Option.MarshalBinary returned
\* succeeds and yields the same OptionClass, FlagCritical, Type and Data.
C3_OptionRoundTrip ==
    ( /\ ret.op = "Option.UnmarshalBinary"
      /\ ret.src = "wire"
      /\ ret.arg = ret.enc )
    => /\ ret.err = nil
       /\ o.OptionClass = ret.sent.OptionClass
       /\ o.FlagCritical = ret.sent.FlagCritical
       /\ o.Type = ret.sent.Type
       /\ o.Data = ret.sent.Data

\* An encoded option with data and the critical flag came back whole.
C3_Witness ==
    /\ ret.op = "Option.UnmarshalBinary"
    /\ ret.src = "wire"
    /\ ret.arg = ret.enc
    /\ ret.err = nil
    /\ ret.recv = ZeroOption
    /\ ret.sent.FlagCritical
    /\ Len(ret.sent.Data) = 124
    /\ o = ret.sent

\* C4: Header encode error precedence.  InvalidVersion whenever Version # 0;
\* otherwise InvalidVNI whenever VNI > MaxVNI; otherwise the error of the
\* first failing option in list order; and on every error no bytes.
C4_HeaderEncodeErrors ==
    ret.op = "Header.MarshalBinary" =>
        LET hd  == ret.recv
            bad == { k \in 1..Len(hd.Options) : ~ValidOption(hd.Options[k]) }
        IN /\ hd.Version # 0 => ret.err = errInvalidVersion
           /\ (hd.Version = 0 /\ hd.VNI > MaxVNI) => ret.err = errInvalidVNI
           /\ (hd.Version = 0 /\ hd.VNI <= MaxVNI /\ bad # {}) =>
                  LET first == CHOOSE k \in bad : \A j \in bad : k <= j
                  IN ret.err = ExpectedOptionError(hd.Options[first])
           /\ ret.err # nil => (ret.isnil /\ ret.out = <<>>)

\* A Header with a bad VNI and a bad option after a good one was refused
\* for its version, and one with two differently failing options for the
\* first of them.
C4_Witness ==
    /\ ret.op = "Header.MarshalBinary"
    /\ ret.recv.Version = 0
    /\ ret.recv.VNI <= MaxVNI
    /\ Len(ret.recv.Options) = 3
    /\ ValidOption(ret.recv.Options[1])
    /\ ExpectedOptionError(ret.recv.Options[2]) = errInvalidOptionType
    /\ ExpectedOptionError(ret.recv.Options[3]) = errInvalidOptionDataLength
    /\ ret.err = errInvalidOptionType
    /\ ret.isnil

\* C5: Option encode rejection.  Option.MarshalBinary succeeds exactly when
\* len(Data) is in {0,4,...,124} and Type <= 127; otherwise it returns no
\* bytes and the error of the first failing check; on success the result
\* has length 4 + len(Data).
C5_OptionEncodeRejection ==
    ret.op = "Option.MarshalBinary" =>
        LET op == ret.recv
            n  == Len(op.Data)
        IN /\ ret.err = nil <=> (n \in { 4 * k : k \in 0..31 } /\ op.Type <= 127)
           /\ ret.err = ExpectedOptionError(op)
           /\ ret.err # nil => (ret.isnil /\ ret.out = <<>>)
           /\ ret.err = nil => (~ret.isnil /\ Len(ret.out) = 4 + n)

\* An option failing all three checks was refused for the first of them.
C5_Witness ==
    /\ ret.op = "Option.MarshalBinary"
    /\ Len(ret.recv.Data) = 130
    /\ ret.recv.Type = 128
    /\ ret.err = errInvalidOptionDataLength
    /\ ret.isnil

\* buf with the bits of mask m set in the byte at Go index i.
SetBits(buf, i, m) == [buf EXCEPT ![i + 1] = BitOr(@, m)]

\* buf with the bits of mask m set in byte 3 of the option at each of the
\* Go offsets in P.
RECURSIVE SetOptionBits(_, _, _)
SetOptionBits(buf, P, m) ==
    IF P = {} THEN buf
    ELSE LET i == CHOOSE x \in P : TRUE
         IN SetOptionBits(SetBits(buf, i + 3, m), P \ {i}, m)

\* The Go offsets at which the options of opts start when the first starts
\* at offset i.
RECURSIVE OptionOffsets(_, _)
OptionOffsets(opts, i) ==
    IF opts = <<>> THEN {}
    ELSE {i} \cup OptionOffsets(Tail(opts), i + optionHeaderLen + Len(Head(opts).Data))

\* The offsets of the options in the buffer of the most recent Header
\* decode: those it decoded, and any that starts where it stopped, inside
\* the length the header announces.
OptionOffsetsInArg ==
    LET end == headerLen + OptionBytes(Decoded)
        ol  == (ret.arg[1] % 64) * 4
    IN OptionOffsets(Decoded, headerLen)
       \cup (IF end + optionHeaderLen <= headerLen + ol THEN {end} ELSE {})

\* C6: Reserved-bit tolerance.  For a buffer that decodes successfully,
\* setting any of the reserved bits (header byte 1 bits 5-0, header byte 7,
\* bits 7-5 of byte 3 of each option) leaves the outcome unchanged: the same
\* Header or Option, and the same payload offset.
C6_ReservedBits ==
    /\ (ret.op \in HeaderDecodeOps /\ ret.err = nil) =>
           \A m1 \in {0, 1, 32, 63}, m7 \in {0, 1, 255}, mo \in {32, 128, 224},
              P \in SUBSET OptionOffsetsInArg :
               LET buf == SetOptionBits(SetBits(SetBits(ret.arg, 1, m1), 7, m7), P, mo)
                   r   == Header_unmarshalBinaryOffset(ret.recv, buf)
               IN /\ r.err = nil
                  /\ r.h = h
                  /\ ret.op = "Header.unmarshalBinaryOffset" => r.off = ret.off
    /\ (ret.op = "Option.UnmarshalBinary" /\ ret.err = nil) =>
           \A mo \in { 32 * k : k \in 0..7 } :
               Option_UnmarshalBinary(ret.recv, SetBits(ret.arg, 3, mo))
                   = [o |-> o, err |-> nil]

\* A buffer with two options, one of them with data, was decoded, reserved
\* bits clear in the prefix.
C6_Witness ==
    /\ ret.op = "Header.unmarshalBinaryOffset"
    /\ ret.err = nil
    /\ Len(h.Options) = 2
    /\ Cardinality(OptionOffsetsInArg) = 2
    /\ h.Options[1].Data # <<>>
    /\ ret.arg[2] % 64 = 0
    /\ ret.arg[8] = 0
    /\ ret.off = Len(ret.arg)

\* C7: A failed Header decode exposes no partial result: the receiver is as
\* it was before the call and the returned offset is 0.
C7_FailedDecodeLeavesReceiver ==
    (ret.op \in HeaderDecodeOps /\ ret.err # nil) =>
        (h = ret.recv /\ ret.off = 0)

\* C8: For every buffer on which unmarshalBinaryOffset succeeds, the offset
\* returned is 8 + ol, ol the option length byte 0 announces, and the
\* decoded options take ol bytes in all.
C8_OffsetIsAdvertisedLength ==
    (ret.op = "Header.unmarshalBinaryOffset" /\ ret.err = nil) =>
        LET ol == (ret.arg[1] % 64) * 4
        IN /\ ret.off = headerLen + ol
           /\ OptionBytes(Decoded) = ol

\* C9: OptLen never overflows on encode.  In the bytes of a successful
\* Header.MarshalBinary the top two bits of byte 0 are the Version and the
\* low six bits times 4 are the number of option bytes after the prefix.
C9_OptLenFits ==
    (ret.op = "Header.MarshalBinary" /\ ret.err = nil) =>
        /\ ret.out[1] \div 64 = ret.recv.Version
        /\ (ret.out[1] % 64) * 4 = Len(ret.out) - headerLen

\* C10: Option decode outcome for every buffer b: short read if len(b) < 4;
\* else InvalidOptionLength if len(b) mod 4 # 0; else, with
\* ol = (b[3] & 0x1F) * 4, short read if len(b) < 4 + ol; else success with
\* the fields of the first four bytes and Data the ol bytes after them.  On
\* an error the receiver is unchanged.
C10_OptionDecodeOutcome ==
    ret.op = "Option.UnmarshalBinary" =>
        LET b == ret.arg IN
        IF Len(b) < 4 THEN ret.err = ErrUnexpectedEOF /\ o = ret.recv
        ELSE IF Len(b) % 4 # 0 THEN ret.err = errInvalidOptionLength /\ o = ret.recv
        ELSE LET ol == (b[4] % 32) * 4 IN
             IF Len(b) < 4 + ol THEN ret.err = ErrUnexpectedEOF /\ o = ret.recv
             ELSE /\ ret.err = nil
                  /\ o.OptionClass = b[1] * 256 + b[2]
                  /\ o.FlagCritical = (b[3] >= 128)
                  /\ o.Type = b[3] % 128
                  /\ o.Type <= 127
                  /\ o.Data = [k \in 1..ol |-> b[4 + k]]

\* A buffer with the critical bit, reserved length bits and bytes after the
\* data was decoded into an Option that held other values.
C10_Witness ==
    /\ ret.op = "Option.UnmarshalBinary"
    /\ ret.src = "raw"
    /\ ret.err = nil
    /\ ret.recv # ZeroOption
    /\ ret.arg[3] >= 128
    /\ ret.arg[4] >= 32
    /\ Len(o.Data) = 4
    /\ Len(ret.arg) > 4 + Len(o.Data)

\* C11: The decode result depends only on the input buffer.  After any
\* sequence of Header.UnmarshalBinary calls on one receiver, if the last
\* call succeeded on buffer b, the receiver equals the Header that decoding
\* b into a new Header gives: options decoded by earlier calls, or set by
\* the caller beforehand, are neither retained nor appended to.
C11_DecodeDependsOnBufferOnly ==
    (ret.op = "Header.UnmarshalBinary" /\ ret.err = nil) =>
        h = Header_UnmarshalBinary(ZeroHeader, ret.arg).h

====
